---- MODULE Spec2Model ----
(***************************************************************************)
(* A model of liquium's settlement core:                                   *)
(*   - RemoteVault (Solidity): the per-deposit status machine,             *)
(*   - NitroliteService (TypeScript): versioned channel state and history, *)
(*   - ClearNodeService (TypeScript): the WebSocket client, its handshake, *)
(*     request correlation and reconnection.                               *)
(* Each component has its own variables and its own specification; the     *)
(* actions of one component leave the variables of the others unchanged.   *)
(***************************************************************************)
EXTENDS Integers, Sequences, FiniteSets, TLC

(***************************************************************************)
(* Bounds of the model                                                     *)
(***************************************************************************)
MaxPositions == 1
MaxVersion == 3
MaxInFlight == 2
MaxSockets == 2
MaxCalls == 2
MaxTime == 1
MaxChallenge == 2
MaxReconnectSockets == 6
MaxSeconds == 1
MaxHistory == 2

(***************************************************************************)
(* RemoteVault                                                             *)
(***************************************************************************)
VARIABLES
    deposits,         \* mapping(uint256 => RemoteDeposit)
    hubVaultAddress,  \* address, address(0) when not configured
    messenger,        \* address, address(0) when not configured
    protocolFeeBps,   \* uint256
    vaultBalance,     \* token -> amount of the token the vault holds
    nftOwner,         \* DealPosition: token id -> owner, address(0) when none
    nftNextId,        \* DealPosition: the id the next mint returns
    settlementReceived \* position -> <<principal, yieldAmount>> of the last
                       \* SettlementReceived event emitted for it

vaultVars == <<deposits, hubVaultAddress, messenger, protocolFeeBps,
               vaultBalance, nftOwner, nftNextId, settlementReceived>>

VARIABLES
    channelState,   \* prisma.channelState: channelId -> row (channelId unique)
    stateHistory,   \* prisma.stateHistory: channelId -> rows in creation order
    ledgerCalls     \* the calls in flight, each at one of its awaits

ledgerVars == <<channelState, stateHistory, ledgerCalls>>

(***************************************************************************)
(* ClearNodeService                                                        *)
(***************************************************************************)
VARIABLES
    now,               \* Date.now(), in milliseconds
    initialized,       \* wallet, messageSigner and authParams are set
    expiresAt,         \* authParams.expiresAt (0 while authParams is null)
    ws,                \* this.ws: a socket, or 0 for null
    sockState,         \* every WebSocket created so far and its readyState
    nextSock,          \* the socket the next connect() creates
    connectionStatus,  \* this.connectionStatus
    isAuthenticated,   \* this.isAuthenticated
    jwtToken,          \* this.jwtToken (0 for null)
    reconnectAttempts, \* this.reconnectAttempts
    requestMap,        \* this.requestMap: request id -> the call it resolves
    requestTimers,     \* the calls whose request timeout is armed
    calls,             \* every sendRequest call: its promise and its map key
    connTimers,        \* the connect() calls whose connection timeout is armed
    connectPromise,    \* the promise of the connect() call that made socket s
    reconnectTimers,   \* attempt number -> reconnect timers pending for it
    tasks,             \* continuations waiting behind an await
    wire,              \* socket -> frames sent on it the server has not answered
    srvChallenge,      \* socket -> the challenge the server issued on it
    rejectedOn,        \* the sockets on which the server rejected auth_verify
    userDisconnected,  \* disconnect() was called and connect() not since
    emitted            \* the events the last step emitted to the listeners

clientVars == <<now, initialized, expiresAt, ws, sockState, nextSock,
                connectionStatus, isAuthenticated, jwtToken,
                reconnectAttempts, requestMap, requestTimers, calls,
                connTimers, connectPromise, reconnectTimers, tasks, wire,
                srvChallenge, rejectedOn, userDisconnected, emitted>>

\* What the actions of one component leave alone
outsideVault == <<ledgerVars, clientVars>>
outsideLedger == <<vaultVars, clientVars>>
outsideClient == <<vaultVars, ledgerVars>>

vars == <<vaultVars, ledgerVars, clientVars>>

ZeroAddress == "0x0"
Owner == "owner"
Users == {"alice", "bob"}
Messengers == {"relay"}
Callers == {Owner} \cup Users \cup Messengers
Tokens == {"usdc"}
PositionIds == 0..MaxPositions
Amounts == {0, 1, 2}
HubIds == {2}
FeeValues == {0, 1000, 1001}
\* <<principal, yieldAmount>> of a settlement message
Settlements == {<<2, 1>>}

DepositStatus == {"Pending", "Sent", "Confirmed", "Settled", "Withdrawn"}

\* A slot of the deposits mapping nobody wrote: every field is zero, and the
\* zero of the enum is Pending.
EmptyDeposit ==
    [positionId |-> 0, depositor |-> ZeroAddress, token |-> ZeroAddress,
     amount |-> 0, hubPositionId |-> 0, status |-> "Pending"]

VaultInit ==
    /\ deposits = [p \in PositionIds |-> EmptyDeposit]
    /\ hubVaultAddress = ZeroAddress
    /\ messenger = ZeroAddress
    /\ protocolFeeBps = 100
    /\ vaultBalance = [t \in Tokens |-> 0]
    /\ nftOwner = [p \in 1..MaxPositions |-> ZeroAddress]
    /\ nftNextId = 1
    /\ settlementReceived = [p \in PositionIds |-> <<0, 0>>]

\* DealPosition.ownerOf: defined for minted, unburned tokens only.
NftExists(p) == p \in 1..MaxPositions /\ nftOwner[p] # ZeroAddress

\* The outcome of each call, "ok" or the revert the code raises first, as a
\* function of the state and the call's arguments. A reverted call changes
\* nothing.
depositResult(sender, token, amount) ==
    IF token = ZeroAddress THEN "InvalidToken"
    ELSE IF amount = 0 THEN "InvalidAmount"
    ELSE "ok"

\* _sendToHub without its check that a hub is configured.
_sendToHubResultNoHubCheck(p) ==
    IF deposits[p].status # "Pending" THEN "InvalidStatus" ELSE "ok"

_sendToHubResult(p) ==
    IF deposits[p].status # "Pending" THEN "InvalidStatus"
    ELSE IF hubVaultAddress = ZeroAddress THEN "HubNotConfigured"
    ELSE "ok"

sendToHubResult(sender, p) ==
    IF sender # Owner THEN "OwnableUnauthorizedAccount"
    ELSE _sendToHubResult(p)

\* confirmDeposit without its caller check.
confirmDepositResultAnyCaller(sender, p) ==
    IF deposits[p].status # "Sent" THEN "InvalidStatus" ELSE "ok"

confirmDepositResult(sender, p) ==
    IF ~(sender = messenger \/ sender = Owner) THEN "Not authorized"
    ELSE IF deposits[p].status # "Sent" THEN "InvalidStatus"
    ELSE "ok"

\* receiveSettlement without its status check.
receiveSettlementResultNoStatus(sender, p) ==
    IF ~(sender = messenger \/ sender = Owner) THEN "Not authorized"
    ELSE "ok"

receiveSettlementResult(sender, p) ==
    IF ~(sender = messenger \/ sender = Owner) THEN "Not authorized"
    ELSE IF deposits[p].status # "Confirmed" THEN "InvalidStatus"
    ELSE "ok"

\* withdraw without its status check.
withdrawResultNoStatus(sender, p) ==
    IF ~NftExists(p) THEN "ERC721NonexistentToken"
    ELSE IF nftOwner[p] # sender THEN "UnauthorizedWithdrawal"
    ELSE IF deposits[p].positionId = 0 THEN "PositionNotFound"
    ELSE "ok"

withdrawResult(sender, p) ==
    IF ~NftExists(p) THEN "ERC721NonexistentToken"
    ELSE IF nftOwner[p] # sender THEN "UnauthorizedWithdrawal"
    ELSE IF deposits[p].status # "Settled" THEN "InvalidStatus"
    ELSE IF deposits[p].positionId = 0 THEN "PositionNotFound"
    ELSE "ok"

\* emergencyWithdraw without its status check.
emergencyWithdrawResultNoStatus(sender, p) ==
    IF ~NftExists(p) THEN "ERC721NonexistentToken"
    ELSE IF nftOwner[p] # sender THEN "UnauthorizedWithdrawal"
    ELSE "ok"

emergencyWithdrawResult(sender, p) ==
    IF ~NftExists(p) THEN "ERC721NonexistentToken"
    ELSE IF nftOwner[p] # sender THEN "UnauthorizedWithdrawal"
    ELSE IF deposits[p].status # "Pending" THEN "InvalidStatus"
    ELSE "ok"

\* setProtocolFee without its cap.
setProtocolFeeResultNoCap(sender, newFeeBps) ==
    IF sender # Owner THEN "OwnableUnauthorizedAccount" ELSE "ok"

setProtocolFeeResult(sender, newFeeBps) ==
    IF sender # Owner THEN "OwnableUnauthorizedAccount"
    ELSE IF ~(newFeeBps <= 1000) THEN "Fee too high"
    ELSE "ok"

onlyOwnerResult(sender) ==
    IF sender # Owner THEN "OwnableUnauthorizedAccount" ELSE "ok"

\* The status write of _sendToHub, as an update of the mapping.
SentToHub(deps, p) == [deps EXCEPT ![p].status = "Sent"]

\* deposit(token, amount): mints the position, records the deposit as Pending
\* and, when hub and messenger are configured, sends it to the hub at once.
deposit(sender, token, amount) ==
    /\ depositResult(sender, token, amount) = "ok"
    /\ UNCHANGED outsideVault
    /\ UNCHANGED settlementReceived
    /\ nftNextId <= MaxPositions
    /\ LET p == nftNextId
           recorded == [deposits EXCEPT ![p] =
               [positionId |-> p, depositor |-> sender, token |-> token,
                amount |-> amount, hubPositionId |-> 0, status |-> "Pending"]]
       IN  /\ nftOwner' = [nftOwner EXCEPT ![p] = sender]
           /\ nftNextId' = nftNextId + 1
           /\ vaultBalance' = [vaultBalance EXCEPT ![token] = @ + amount]
           /\ deposits' =
                IF hubVaultAddress # ZeroAddress /\ messenger # ZeroAddress
                THEN SentToHub(recorded, p)
                ELSE recorded
           /\ UNCHANGED <<hubVaultAddress, messenger, protocolFeeBps>>

\* sendToHub(positionId) onlyOwner, with _sendToHub inlined.
sendToHub(sender, p) ==
    /\ sendToHubResult(sender, p) = "ok"
    /\ UNCHANGED outsideVault
    /\ UNCHANGED settlementReceived
    /\ deposits' = SentToHub(deposits, p)
    /\ UNCHANGED <<hubVaultAddress, messenger, protocolFeeBps, vaultBalance,
                   nftOwner, nftNextId>>

confirmDeposit(sender, p, hubPositionId) ==
    /\ confirmDepositResult(sender, p) = "ok"
    /\ UNCHANGED outsideVault
    /\ UNCHANGED settlementReceived
    /\ deposits' = [deposits EXCEPT ![p].hubPositionId = hubPositionId,
                                    ![p].status = "Confirmed"]
    /\ UNCHANGED <<hubVaultAddress, messenger, protocolFeeBps, vaultBalance,
                   nftOwner, nftNextId>>

\* principal and yieldAmount only reach the SettlementReceived event.
receiveSettlement(sender, p, principal, yieldAmount) ==
    /\ receiveSettlementResult(sender, p) = "ok"
    /\ UNCHANGED outsideVault
    /\ settlementReceived' =
          [settlementReceived EXCEPT ![p] = <<principal, yieldAmount>>]
    /\ deposits' = [deposits EXCEPT ![p].status = "Settled"]
    /\ UNCHANGED <<hubVaultAddress, messenger, protocolFeeBps, vaultBalance,
                   nftOwner, nftNextId>>

\* "uint256 yieldAmount = 0; // TODO: Get from settlement message"
WithdrawYield == 0

\* A withdrawal that pays the final amount the hub reported.
WithdrawAmountsFromSettlement(p) ==
    <<settlementReceived[p][1], 0>>

\* What withdraw pays for position p: <<totalAmount, fee>>.
WithdrawAmounts(p) ==
    LET principal == deposits[p].amount
        yieldAmount == WithdrawYield
        fee == (yieldAmount * protocolFeeBps) \div 10000
        netYield == yieldAmount - fee
    IN  <<principal + netYield, fee>>

\* A withdrawal that pays but neither marks the deposit nor burns the token.
withdrawKeepsPosition(sender, p) ==
    /\ withdrawResult(sender, p) = "ok"
    /\ UNCHANGED outsideVault
    /\ UNCHANGED settlementReceived
    /\ vaultBalance' = [vaultBalance EXCEPT ![deposits[p].token] =
                          @ - WithdrawAmounts(p)[1] - WithdrawAmounts(p)[2]]
    /\ UNCHANGED <<deposits, nftOwner, hubVaultAddress, messenger,
                   protocolFeeBps, nftNextId>>

withdraw(sender, p) ==
    /\ withdrawResult(sender, p) = "ok"
    /\ UNCHANGED outsideVault
    /\ UNCHANGED settlementReceived
    /\ deposits' = [deposits EXCEPT ![p].status = "Withdrawn"]
    /\ nftOwner' = [nftOwner EXCEPT ![p] = ZeroAddress]
    /\ vaultBalance' = [vaultBalance EXCEPT ![deposits[p].token] =
                          @ - WithdrawAmounts(p)[1] - WithdrawAmounts(p)[2]]
    /\ UNCHANGED <<hubVaultAddress, messenger, protocolFeeBps, nftNextId>>

\* An emergency withdrawal that keeps a fee of one unit in the vault.
emergencyWithdrawWithFee(sender, p) ==
    /\ emergencyWithdrawResult(sender, p) = "ok"
    /\ UNCHANGED outsideVault
    /\ UNCHANGED settlementReceived
    /\ deposits' = [deposits EXCEPT ![p].status = "Withdrawn"]
    /\ nftOwner' = [nftOwner EXCEPT ![p] = ZeroAddress]
    /\ vaultBalance' = [vaultBalance EXCEPT ![deposits[p].token] =
                          @ - (deposits[p].amount - 1)]
    /\ UNCHANGED <<hubVaultAddress, messenger, protocolFeeBps, nftNextId>>

emergencyWithdraw(sender, p) ==
    /\ emergencyWithdrawResult(sender, p) = "ok"
    /\ UNCHANGED outsideVault
    /\ UNCHANGED settlementReceived
    /\ deposits' = [deposits EXCEPT ![p].status = "Withdrawn"]
    /\ nftOwner' = [nftOwner EXCEPT ![p] = ZeroAddress]
    /\ vaultBalance' = [vaultBalance EXCEPT ![deposits[p].token] =
                          @ - deposits[p].amount]
    /\ UNCHANGED <<hubVaultAddress, messenger, protocolFeeBps, nftNextId>>

setHubVault(sender, hub) ==
    /\ onlyOwnerResult(sender) = "ok"
    /\ UNCHANGED outsideVault
    /\ UNCHANGED settlementReceived
    /\ hubVaultAddress' = hub
    /\ UNCHANGED <<deposits, messenger, protocolFeeBps, vaultBalance,
                   nftOwner, nftNextId>>

setMessenger(sender, m) ==
    /\ onlyOwnerResult(sender) = "ok"
    /\ UNCHANGED outsideVault
    /\ UNCHANGED settlementReceived
    /\ messenger' = m
    /\ UNCHANGED <<deposits, hubVaultAddress, protocolFeeBps,
                   vaultBalance, nftOwner, nftNextId>>

setProtocolFee(sender, newFeeBps) ==
    /\ setProtocolFeeResult(sender, newFeeBps) = "ok"
    /\ UNCHANGED outsideVault
    /\ UNCHANGED settlementReceived
    /\ protocolFeeBps' = newFeeBps
    /\ UNCHANGED <<deposits, hubVaultAddress, messenger, vaultBalance,
                   nftOwner, nftNextId>>

VaultNext ==
    \/ \E s \in Users, t \in Tokens \cup {ZeroAddress}, a \in Amounts :
          deposit(s, t, a)
    \/ \E s \in Callers, p \in PositionIds : sendToHub(s, p)
    \/ \E s \in Callers, p \in PositionIds, h \in HubIds :
          confirmDeposit(s, p, h)
    \/ \E s \in Callers, p \in PositionIds, st \in Settlements :
          receiveSettlement(s, p, st[1], st[2])
    \/ \E s \in Callers, p \in PositionIds : withdraw(s, p)
    \/ \E s \in Callers, p \in PositionIds : emergencyWithdraw(s, p)
    \/ \E s \in Callers, h \in {ZeroAddress, "hub"} : setHubVault(s, h)
    \/ \E s \in Callers, m \in {ZeroAddress} \cup Messengers :
          setMessenger(s, m)
    \/ \E s \in Callers, f \in FeeValues : setProtocolFee(s, f)

(***************************************************************************)
(* NitroliteService: channel state and state history                       *)
(***************************************************************************)
ChannelIds == {"s1", "s2"}
DealIds == {26}
Dealers == {"dealer"}
LPs == {"lp"}
DepositAmounts == {1}
\* <<amount0, amount1>> of an update or of the final state
AllocAmounts == {<<0, 1>>, <<1, 0>>}
\* updateChannelState's optional stateData: undefined, or a string
NoStateData == "undefined"
StateDataArgs == {NoStateData, "", "0xfeed"}
LedgerSlots == 1..MaxInFlight

HexDigit(d) ==
    CASE d < 10 -> ToString(d)
      [] d = 10 -> "a" [] d = 11 -> "b" [] d = 12 -> "c"
      [] d = 13 -> "d" [] d = 14 -> "e" [] d = 15 -> "f"

\* bigint.toString(16)
RECURSIVE ToHex(_)
ToHex(n) == IF n < 16 THEN HexDigit(n) ELSE ToHex(n \div 16) \o HexDigit(n % 16)

\* String.padStart(len, "0")
RECURSIVE PadStart(_, _)
PadStart(str, len) == IF Len(str) >= len THEN str ELSE PadStart("0" \o str, len)

encodeDealId(dealId) == "0x" \o PadStart(ToHex(dealId), 64)

IdleCall ==
    [op |-> "idle", pc |-> "idle", channelId |-> "", dealId |-> 0,
     participants |-> <<"", "">>, amount0 |-> 0, amount1 |-> 0,
     stateData |-> NoStateData, version |-> 0, currentStateData |-> ""]

LedgerInit ==
    /\ channelState = <<>>
    /\ stateHistory = [c \in ChannelIds |-> <<>>]
    /\ ledgerCalls = [k \in LedgerSlots |-> IdleCall]

NoCallInFlight == \A k \in LedgerSlots : ledgerCalls[k].op = "idle"

Allocation(destination, amount) ==
    [destination |-> destination, amount |-> ToString(amount)]

\* stateData || currentState.stateData: undefined and "" are both falsy.
StateDataOr(stateData, current) ==
    IF stateData = NoStateData \/ stateData = "" THEN current ELSE stateData

\* createChannelForDeal, up to its first await: the create_app_session request
\* is on its way.
CreateChannelForDeal(k, dealId, dealer, lp, lpAmount) ==
    /\ ledgerCalls[k].op = "idle"
    /\ ledgerCalls' = [ledgerCalls EXCEPT ![k] =
          [IdleCall EXCEPT !.op = "create", !.pc = "remote",
                           !.dealId = dealId,
                           !.participants = <<dealer, lp>>,
                           !.amount1 = lpAmount]]
    /\ UNCHANGED <<channelState, stateHistory, outsideLedger>>

\* A failed remote call that leaves a history row behind.
CreateRemoteFailedLeavesHistory(k) ==
    /\ ledgerCalls[k].op = "create" /\ ledgerCalls[k].pc = "remote"
    /\ ledgerCalls' = [ledgerCalls EXCEPT ![k] = IdleCall]
    /\ stateHistory' = [stateHistory EXCEPT !["s1"] = Append(@,
            [version |-> 1, stateHash |-> "s1", intent |-> "INITIALIZE",
             allocation0 |-> Allocation("dealer", 0),
             allocation1 |-> Allocation("lp", 1),
             stateData |-> encodeDealId(26)])]
    /\ UNCHANGED <<channelState, outsideLedger>>

\* clearNodeService.createAppSession threw: the call ends, nothing is written.
CreateRemoteFailed(k) ==
    /\ ledgerCalls[k].op = "create" /\ ledgerCalls[k].pc = "remote"
    /\ ledgerCalls' = [ledgerCalls EXCEPT ![k] = IdleCall]
    /\ UNCHANGED <<channelState, stateHistory, outsideLedger>>

\* createAppSession returned the session: prisma.channelState.create. A
\* second row with the same channelId violates the unique key and throws.
CreateChannelState(k, sessionId) ==
    /\ ledgerCalls[k].op = "create" /\ ledgerCalls[k].pc = "remote"
    /\ LET c == ledgerCalls[k] IN
       IF sessionId \in DOMAIN channelState
       THEN /\ ledgerCalls' = [ledgerCalls EXCEPT ![k] = IdleCall]
            /\ UNCHANGED <<channelState, stateHistory, outsideLedger>>
       ELSE /\ channelState' = channelState @@ (sessionId :>
                 [dealId |-> c.dealId,
                  stateHash |-> sessionId,
                  version |-> 1,
                  intent |-> "INITIALIZE",
                  allocation0 |-> Allocation(c.participants[1], 0),
                  allocation1 |-> Allocation(c.participants[2], c.amount1),
                  participants |-> c.participants,
                  stateData |-> encodeDealId(c.dealId)])
            /\ ledgerCalls' = [ledgerCalls EXCEPT ![k].pc = "history",
                                                  ![k].channelId = sessionId]
            /\ UNCHANGED <<stateHistory, outsideLedger>>

\* prisma.stateHistory.create of createChannelForDeal
CreateHistory(k) ==
    /\ ledgerCalls[k].op = "create" /\ ledgerCalls[k].pc = "history"
    /\ LET c == ledgerCalls[k] IN
       stateHistory' = [stateHistory EXCEPT ![c.channelId] = Append(@,
            [version |-> 1,
             stateHash |-> c.channelId,
             intent |-> "INITIALIZE",
             allocation0 |-> Allocation(c.participants[1], 0),
             allocation1 |-> Allocation(c.participants[2], c.amount1),
             stateData |-> encodeDealId(c.dealId)])]
    /\ ledgerCalls' = [ledgerCalls EXCEPT ![k] = IdleCall]
    /\ UNCHANGED <<channelState, outsideLedger>>

\* updateChannelState up to the result of findUnique: the call holds the row
\* it read. A channel that is not found throws and changes nothing.
UpdateChannelState(k, channelId, newAmount0, newAmount1, stateData) ==
    /\ ledgerCalls[k].op = "idle"
    /\ channelId \in DOMAIN channelState
    /\ channelState[channelId].version < MaxVersion
    /\ LET cur == channelState[channelId] IN
       ledgerCalls' = [ledgerCalls EXCEPT ![k] =
          [IdleCall EXCEPT !.op = "update", !.pc = "update",
                           !.channelId = channelId,
                           !.participants = cur.participants,
                           !.amount0 = newAmount0, !.amount1 = newAmount1,
                           !.stateData = stateData,
                           !.version = cur.version + 1,
                           !.currentStateData = cur.stateData]]
    /\ UNCHANGED <<channelState, stateHistory, outsideLedger>>

\* An update that writes the row without a new version.
UpdateWriteStateKeepsVersion(k) ==
    /\ ledgerCalls[k].op = "update" /\ ledgerCalls[k].pc = "update"
    /\ LET c == ledgerCalls[k] IN
       channelState' = [channelState EXCEPT ![c.channelId] =
          [@ EXCEPT !.intent = "OPERATE",
                    !.allocation0 = Allocation(c.participants[1], c.amount0),
                    !.allocation1 = Allocation(c.participants[2], c.amount1),
                    !.stateData = StateDataOr(c.stateData, c.currentStateData)]]
    /\ ledgerCalls' = [ledgerCalls EXCEPT ![k].pc = "history"]
    /\ UNCHANGED <<stateHistory, outsideLedger>>

\* prisma.channelState.update of updateChannelState: the version written is
\* the one computed from the row read.
UpdateWriteState(k) ==
    /\ ledgerCalls[k].op = "update" /\ ledgerCalls[k].pc = "update"
    /\ LET c == ledgerCalls[k] IN
       channelState' = [channelState EXCEPT ![c.channelId] =
          [@ EXCEPT !.version = c.version,
                    !.intent = "OPERATE",
                    !.allocation0 = Allocation(c.participants[1], c.amount0),
                    !.allocation1 = Allocation(c.participants[2], c.amount1),
                    !.stateData = StateDataOr(c.stateData, c.currentStateData)]]
    /\ ledgerCalls' = [ledgerCalls EXCEPT ![k].pc = "history"]
    /\ UNCHANGED <<stateHistory, outsideLedger>>

\* prisma.stateHistory.create of updateChannelState
UpdateWriteHistory(k) ==
    /\ ledgerCalls[k].op = "update" /\ ledgerCalls[k].pc = "history"
    /\ LET c == ledgerCalls[k] IN
       stateHistory' = [stateHistory EXCEPT ![c.channelId] = Append(@,
            [version |-> c.version,
             stateHash |-> ToString(c.version),
             intent |-> "OPERATE",
             allocation0 |-> Allocation(c.participants[1], c.amount0),
             allocation1 |-> Allocation(c.participants[2], c.amount1),
             stateData |-> StateDataOr(c.stateData, c.currentStateData)])]
    /\ ledgerCalls' = [ledgerCalls EXCEPT ![k] = IdleCall]
    /\ UNCHANGED <<channelState, outsideLedger>>

\* finalizeChannel up to the result of findUnique.
FinalizeChannel(k, channelId, finalAmount0, finalAmount1) ==
    /\ ledgerCalls[k].op = "idle"
    /\ channelId \in DOMAIN channelState
    /\ channelState[channelId].version < MaxVersion
    /\ ledgerCalls' = [ledgerCalls EXCEPT ![k] =
          [IdleCall EXCEPT !.op = "finalize", !.pc = "update",
                           !.channelId = channelId,
                           !.participants = channelState[channelId].participants,
                           !.amount0 = finalAmount0,
                           !.amount1 = finalAmount1]]
    /\ UNCHANGED <<channelState, stateHistory, outsideLedger>>

\* prisma.channelState.update of finalizeChannel: version {increment: 1} on
\* the stored row; the call returns after it and writes no history row.
FinalizeWriteState(k) ==
    /\ ledgerCalls[k].op = "finalize" /\ ledgerCalls[k].pc = "update"
    /\ LET c == ledgerCalls[k] IN
       channelState' = [channelState EXCEPT ![c.channelId] =
          [@ EXCEPT !.version = @ + 1,
                    !.intent = "FINALIZE",
                    !.allocation0 = Allocation(c.participants[1], c.amount0),
                    !.allocation1 = Allocation(c.participants[2], c.amount1)]]
    /\ ledgerCalls' = [ledgerCalls EXCEPT ![k] = IdleCall]
    /\ UNCHANGED <<stateHistory, outsideLedger>>

\* The awaits of the calls in flight
LedgerStep(k) ==
    \/ CreateRemoteFailed(k)
    \/ \E sessionId \in ChannelIds : CreateChannelState(k, sessionId)
    \/ CreateHistory(k)
    \/ UpdateWriteState(k)
    \/ UpdateWriteHistory(k)
    \/ FinalizeWriteState(k)

LedgerCall(k) ==
    \/ \E d \in DealIds, dealer \in Dealers, lp \in LPs,
          a \in DepositAmounts : CreateChannelForDeal(k, d, dealer, lp, a)
    \/ \E c \in ChannelIds, a \in AllocAmounts, sd \in StateDataArgs :
          UpdateChannelState(k, c, a[1], a[2], sd)
    \/ \E c \in ChannelIds, a \in AllocAmounts :
          FinalizeChannel(k, c, a[1], a[2])

\* Calls made one after the other: a call starts when no other is in flight.
LedgerNext ==
    \/ NoCallInFlight /\ LedgerCall(1)
    \/ LedgerStep(1)

\* Calls started while another is in flight: the service is a singleton whose
\* methods are async and hold no lock, so the awaits of two calls interleave.
LedgerConcurrentNext ==
    \E k \in LedgerSlots :
        \/ (\A c \in ChannelIds : Len(stateHistory[c]) < MaxHistory)
              /\ LedgerCall(k)
        \/ LedgerStep(k)

(***************************************************************************)
(* ClearNodeService: connection, handshake, requests, reconnection         *)
(***************************************************************************)
maxReconnectAttempts == 5
reconnectInterval == 3000
reconnectBackoffMultiplier == 2
sessionExpiration == 3600

SocketIds == 1..MaxSockets
\* enough sockets for the reconnect loop to use up its attempts
ReconnectSockets == 1..MaxReconnectSockets
CallIds == 1..MaxCalls
Times == 0..MaxTime
\* challengeMessage of an auth_challenge frame; 0 is a frame without one
Challenges == 0..MaxChallenge
\* jwtToken of an auth_verify result; 0 is a result without one
JwtTokens == {0, 1}
RequestMethods == {"create_app_session"}

NoCall == [st |-> "idle", key |-> 0, result |-> 0, error |-> ""]

\* The state after construction, with room for the given sockets
ClientInitWith(sockets) ==
    /\ now = 0
    /\ initialized = FALSE
    /\ expiresAt = 0
    /\ ws = 0
    /\ sockState = [s \in sockets |-> "none"]
    /\ nextSock = 1
    /\ connectionStatus = "disconnected"
    /\ isAuthenticated = FALSE
    /\ jwtToken = 0
    /\ reconnectAttempts = 0
    /\ requestMap = <<>>
    /\ requestTimers = {}
    /\ calls = [c \in CallIds |-> NoCall]
    /\ connTimers = {}
    /\ connectPromise = [s \in sockets |-> "none"]
    /\ reconnectTimers = [n \in 1..maxReconnectAttempts |-> 0]
    /\ tasks = {}
    /\ wire = [s \in sockets |-> {}]
    /\ srvChallenge = [s \in sockets |-> 0]
    /\ rejectedOn = {}
    /\ userDisconnected = FALSE
    /\ emitted = {}

ClientInit == ClientInitWith(SocketIds)

\* {req: [requestId, method, params, timestamp], sig}: arg stands for the
\* params that tell frames apart (the challenge, the call), expiry for the
\* expires_at the handshake frames carry or sign.
Frame(id, method, arg, expiry) ==
    [id |-> id, method |-> method, arg |-> arg, expiry |-> expiry]

\* createAuthRequestMessage: expires_at among the params
createAuthRequestMessage == Frame(now, "auth_request", 0, expiresAt)

\* An auth_verify whose params carry no challenge
createAuthVerifyMessageNoChallenge(challenge) ==
    Frame(now, "auth_verify", 0, expiresAt)

\* createAuthVerifyMessage: the challenge among the params, the expiry in
\* the typed data that is signed
createAuthVerifyMessage(challenge) ==
    Frame(now, "auth_verify", challenge, expiresAt)

\* createSignedRequest: the id is the clock at the time of signing
createSignedRequest(timestamp, method, params) ==
    Frame(timestamp, method, params, 0)

\* The result the server computes for a request
Answer(arg) == 100 + arg

\* WebSocket.close(): a socket that is connecting or open starts closing and
\* emits close later; one that is closing or closed stays as it is.
Closed(ss, s) ==
    IF ss[s] \in {"connecting", "open"} THEN [ss EXCEPT ![s] = "closing"] ELSE ss

\* A promise settles once.
Settled(promises, s, outcome) ==
    IF promises[s] = "pending" THEN [promises EXCEPT ![s] = outcome]
    ELSE promises

Resolved(cs, c, result) ==
    IF cs[c].st = "pending"
    THEN [cs EXCEPT ![c].st = "resolved", ![c].result = result] ELSE cs

Rejected(cs, c, error) ==
    IF cs[c].st = "pending"
    THEN [cs EXCEPT ![c].st = "rejected", ![c].error = error] ELSE cs

\* Map.delete / Map.set
MapDelete(m, id) == [k \in DOMAIN m \ {id} |-> m[k]]
MapSet(m, id, v) == (id :> v) @@ m

\* this.ws?.send(frame): skipped when this.ws is null; WebSocket.send throws
\* on a socket that is still connecting and drops the frame on one that is
\* closing or closed.
SendOutcome ==
    IF ws = 0 THEN "skipped"
    ELSE CASE sockState[ws] = "connecting" -> "throws"
           [] sockState[ws] = "open" -> "sent"
           [] OTHER -> "dropped"

WireAfterSend(frame) ==
    IF SendOutcome = "sent" THEN [wire EXCEPT ![ws] = @ \cup {frame}] ELSE wire

\* The continuations queued behind the awaits (signing is computed in
\* process) run before the event loop delivers the next timer or socket event.
EventLoopTurn == tasks = {}

\* The socket delivers inbound frames until its close event.
Receiving(s) == EventLoopTurn /\ sockState[s] \in {"open", "closing"}

Pow(b, e) == IF e = 0 THEN 1 ELSE IF e = 1 THEN b ELSE IF e = 2 THEN b * b
             ELSE IF e = 3 THEN b * b * b ELSE b * b * b * b

\* A delay that grows by the base for every attempt
ReconnectDelayLinear(n) == reconnectInterval * n

\* attemptReconnect's delay for attempt n
ReconnectDelay(n) == reconnectInterval * Pow(reconnectBackoffMultiplier, n - 1)

\* attemptReconnect: what it leaves in reconnectAttempts and in the timers
AttemptsAfterReconnect ==
    IF reconnectAttempts >= maxReconnectAttempts THEN reconnectAttempts
    ELSE reconnectAttempts + 1

TimersAfterReconnect ==
    IF reconnectAttempts >= maxReconnectAttempts THEN reconnectTimers
    ELSE [reconnectTimers EXCEPT ![reconnectAttempts + 1] = @ + 1]

initialize ==
    /\ initialized' = TRUE
    /\ expiresAt' = (now \div 1000) + sessionExpiration
    /\ emitted' = {}
    /\ UNCHANGED <<now, ws, sockState, nextSock, connectionStatus,
                   isAuthenticated, jwtToken, reconnectAttempts, requestMap,
                   requestTimers, calls, connTimers, connectPromise,
                   reconnectTimers, tasks, wire, srvChallenge, rejectedOn,
                   userDisconnected, outsideClient>>

\* The body of connect() on an initialized service: close the socket held,
\* create the next one, arm the connection timeout.
connectBody ==
    /\ initialized
    /\ nextSock \in DOMAIN sockState
    /\ sockState' = [(IF ws # 0 THEN Closed(sockState, ws) ELSE sockState)
                        EXCEPT ![nextSock] = "connecting"]
    /\ ws' = nextSock
    /\ nextSock' = nextSock + 1
    /\ connectionStatus' = "connecting"
    /\ connTimers' = connTimers \cup {nextSock}
    /\ connectPromise' = [connectPromise EXCEPT ![nextSock] = "pending"]

\* connect() called by the user of the service
connect ==
    /\ connectBody
    /\ userDisconnected' = FALSE
    /\ emitted' = {"connecting"}
    /\ UNCHANGED <<now, initialized, expiresAt, isAuthenticated, jwtToken,
                   reconnectAttempts, requestMap, requestTimers, calls,
                   reconnectTimers, tasks, wire, srvChallenge, rejectedOn,
                   outsideClient>>

\* The timer attemptReconnect set for attempt n fires: connect()
reconnectTimerFires(n) ==
    /\ EventLoopTurn
    /\ reconnectTimers[n] > 0
    /\ reconnectTimers' = [reconnectTimers EXCEPT ![n] = @ - 1]
    /\ connectBody
    /\ emitted' = {"connecting"}
    /\ UNCHANGED <<now, initialized, expiresAt, isAuthenticated, jwtToken,
                   reconnectAttempts, requestMap, requestTimers, calls,
                   tasks, wire, srvChallenge, rejectedOn, userDisconnected,
                   outsideClient>>

\* The connection timeout of the connect() call that created socket s
connectionTimeoutFires(s) ==
    /\ EventLoopTurn
    /\ s \in connTimers
    /\ connTimers' = connTimers \ {s}
    /\ IF connectionStatus = "connecting"
       THEN /\ sockState' = IF ws # 0 THEN Closed(sockState, ws) ELSE sockState
            /\ connectPromise' =
                 Settled(connectPromise, s, "rejected: Connection timeout")
       ELSE UNCHANGED <<sockState, connectPromise>>
    /\ emitted' = {}
    /\ UNCHANGED <<now, initialized, expiresAt, ws, nextSock,
                   connectionStatus, isAuthenticated, jwtToken,
                   reconnectAttempts, requestMap, requestTimers, calls,
                   reconnectTimers, tasks, wire, srvChallenge, rejectedOn,
                   userDisconnected, outsideClient>>

\* ws.on('open') up to the first await of startAuthentication: the
\* auth_request is built and signed, its sending waits behind the await.
onOpen(s) ==
    /\ EventLoopTurn
    /\ sockState[s] = "connecting"
    /\ sockState' = [sockState EXCEPT ![s] = "open"]
    /\ connTimers' = connTimers \ {s}
    /\ reconnectAttempts' = 0
    /\ connectionStatus' = "authenticating"
    /\ tasks' = tasks \cup
          {[kind |-> "auth_request", sock |-> s, call |-> 0,
            frame |-> createAuthRequestMessage]}
    /\ emitted' = {"connected"}
    /\ UNCHANGED <<now, initialized, expiresAt, ws, nextSock,
                   isAuthenticated, jwtToken, requestMap, requestTimers,
                   calls, connectPromise, reconnectTimers, wire,
                   srvChallenge, rejectedOn, userDisconnected, outsideClient>>

\* The rest of startAuthentication and of the open handler: send the
\* auth_request on this.ws, then resolve() the connect() promise; a send that
\* throws rejects it.
startAuthentication(t) ==
    /\ t \in tasks /\ t.kind = "auth_request"
    /\ tasks' = tasks \ {t}
    /\ IF SendOutcome = "throws"
       THEN /\ connectPromise' =
                 Settled(connectPromise, t.sock, "rejected: WebSocket is not open")
            /\ UNCHANGED wire
       ELSE /\ wire' = WireAfterSend(t.frame)
            /\ connectPromise' = Settled(connectPromise, t.sock, "resolved")
    /\ emitted' = {}
    /\ UNCHANGED <<now, initialized, expiresAt, ws, sockState, nextSock,
                   connectionStatus, isAuthenticated, jwtToken,
                   reconnectAttempts, requestMap, requestTimers, calls,
                   connTimers, reconnectTimers, srvChallenge, rejectedOn,
                   userDisconnected, outsideClient>>

\* ws.on('error')
onError(s) ==
    /\ EventLoopTurn
    /\ sockState[s] \in {"connecting", "open"}
    /\ connTimers' = connTimers \ {s}
    /\ emitted' = {"error"}
    /\ UNCHANGED <<now, initialized, expiresAt, ws, sockState, nextSock,
                   connectionStatus, isAuthenticated, jwtToken,
                   reconnectAttempts, requestMap, requestTimers, calls,
                   connectPromise, reconnectTimers, tasks, wire,
                   srvChallenge, rejectedOn, userDisconnected, outsideClient>>

\* ws.on('close'), with attemptReconnect
onClose(s) ==
    /\ EventLoopTurn
    /\ sockState[s] \in {"connecting", "open", "closing"}
    /\ sockState' = [sockState EXCEPT ![s] = "closed"]
    /\ connTimers' = connTimers \ {s}
    /\ connectionStatus' = "disconnected"
    /\ isAuthenticated' = FALSE
    /\ reconnectAttempts' = AttemptsAfterReconnect
    /\ reconnectTimers' = TimersAfterReconnect
    \* what the server has not answered by now is never answered
    /\ wire' = [wire EXCEPT ![s] = {}]
    /\ emitted' = IF reconnectAttempts >= maxReconnectAttempts
                   THEN {"disconnected"}
                   ELSE {"disconnected", "reconnecting"}
    /\ UNCHANGED <<now, initialized, expiresAt, ws, nextSock, jwtToken,
                   requestMap, requestTimers, calls, connectPromise, tasks,
                   srvChallenge, rejectedOn, userDisconnected,
                   outsideClient>>

\* The calls whose handlers the request map holds
Handled == {requestMap[k] : k \in DOMAIN requestMap}

disconnect ==
    /\ IF ws # 0
       THEN /\ requestTimers' = requestTimers \ Handled
            /\ calls' = [c \in CallIds |->
                  IF c \in Handled
                  THEN Rejected(calls, c, "Connection closed")[c]
                  ELSE calls[c]]
            /\ requestMap' = <<>>
            /\ sockState' = Closed(sockState, ws)
            /\ ws' = 0
       ELSE UNCHANGED <<requestTimers, calls, requestMap, sockState, ws>>
    /\ isAuthenticated' = FALSE
    /\ connectionStatus' = "disconnected"
    /\ userDisconnected' = TRUE
    /\ emitted' = {}
    /\ UNCHANGED <<now, initialized, expiresAt, nextSock, jwtToken,
                   reconnectAttempts, connTimers, connectPromise,
                   reconnectTimers, tasks, wire, srvChallenge, rejectedOn,
                   outsideClient>>

\* sendRequest up to the await of createSignedRequest: the map key is one
\* read of the clock, the id in the frame is createSignedRequest's own read,
\* taken later in the same run.
sendRequest(c, method) ==
    /\ calls[c].st = "idle"
    /\ \A d \in CallIds : d < c => calls[d].st # "idle"
    /\ IF ~isAuthenticated
       THEN /\ calls' = [calls EXCEPT ![c].st = "rejected",
                                      ![c].error = "Not authenticated"]
            /\ UNCHANGED <<now, requestMap, requestTimers, tasks>>
       ELSE \E frameId \in {now, now + 1} \cap Times :
            /\ calls' = [calls EXCEPT ![c] =
                  [st |-> "pending", key |-> now, result |-> 0, error |-> ""]]
            /\ requestTimers' = requestTimers \cup {c}
            /\ requestMap' = MapSet(requestMap, now, c)
            /\ tasks' = tasks \cup
                  {[kind |-> "request", sock |-> 0, call |-> c,
                    frame |-> createSignedRequest(frameId, method, c)]}
            /\ now' = frameId
    /\ emitted' = {}
    /\ UNCHANGED <<initialized, expiresAt, ws, sockState, nextSock,
                   connectionStatus, isAuthenticated, jwtToken,
                   reconnectAttempts, connTimers, connectPromise,
                   reconnectTimers, wire, srvChallenge, rejectedOn,
                   userDisconnected, outsideClient>>

\* The rest of sendRequest: send the signed frame on this.ws; a send that
\* throws clears the call's timer, deletes its key and rejects it.
sendRequestSend(t) ==
    /\ t \in tasks /\ t.kind = "request"
    /\ tasks' = tasks \ {t}
    /\ IF SendOutcome = "throws"
       THEN /\ requestTimers' = requestTimers \ {t.call}
            /\ requestMap' = MapDelete(requestMap, calls[t.call].key)
            /\ calls' = Rejected(calls, t.call, "WebSocket is not open")
            /\ UNCHANGED wire
       ELSE /\ wire' = WireAfterSend(t.frame)
            /\ UNCHANGED <<requestTimers, requestMap, calls>>
    /\ emitted' = {}
    /\ UNCHANGED <<now, initialized, expiresAt, ws, sockState, nextSock,
                   connectionStatus, isAuthenticated, jwtToken,
                   reconnectAttempts, connTimers, connectPromise,
                   reconnectTimers, srvChallenge, rejectedOn,
                   userDisconnected, outsideClient>>

\* The request timeout of call c
requestTimeoutFires(c) ==
    /\ EventLoopTurn
    /\ c \in requestTimers
    /\ requestTimers' = requestTimers \ {c}
    /\ requestMap' = MapDelete(requestMap, calls[c].key)
    /\ calls' = Rejected(calls, c, "Request timeout")
    /\ emitted' = {}
    /\ UNCHANGED <<now, initialized, expiresAt, ws, sockState, nextSock,
                   connectionStatus, isAuthenticated, jwtToken,
                   reconnectAttempts, connTimers, connectPromise,
                   reconnectTimers, tasks, wire, srvChallenge, rejectedOn,
                   userDisconnected, outsideClient>>

\* The server answers the auth_request f it received on socket s with an
\* auth_challenge; handleMessage hands it to handleAuthChallenge, which
\* builds the auth_verify and sends it behind an await.
handleAuthChallenge(s, f, challenge) ==
    /\ Receiving(s)
    /\ f \in wire[s] /\ f.method = "auth_request"
    /\ wire' = [wire EXCEPT ![s] = @ \ {f}]
    /\ srvChallenge' = [srvChallenge EXCEPT ![s] = challenge]
    /\ IF initialized /\ challenge # 0
       THEN tasks' = tasks \cup
               {[kind |-> "auth_verify", sock |-> s, call |-> 0,
                 frame |-> createAuthVerifyMessage(challenge)]}
       ELSE UNCHANGED tasks
    /\ emitted' = {}
    /\ UNCHANGED <<now, initialized, expiresAt, ws, sockState, nextSock,
                   connectionStatus, isAuthenticated, jwtToken,
                   reconnectAttempts, requestMap, requestTimers, calls,
                   connTimers, connectPromise, reconnectTimers, rejectedOn,
                   userDisconnected, outsideClient>>

\* The rest of handleAuthChallenge: send the auth_verify on this.ws; what a
\* throwing send raises ends in handleMessage's catch.
handleAuthChallengeSend(t) ==
    /\ t \in tasks /\ t.kind = "auth_verify"
    /\ tasks' = tasks \ {t}
    /\ wire' = WireAfterSend(t.frame)
    /\ emitted' = {}
    /\ UNCHANGED <<now, initialized, expiresAt, ws, sockState, nextSock,
                   connectionStatus, isAuthenticated, jwtToken,
                   reconnectAttempts, requestMap, requestTimers, calls,
                   connTimers, connectPromise, reconnectTimers,
                   srvChallenge, rejectedOn, userDisconnected, outsideClient>>

\* The server answers the auth_verify f it received on socket s with a res
\* frame of method auth_verify; handleMessage hands it to handleAuthSuccess,
\* whose throw on success = false ends in handleMessage's catch.
handleAuthSuccess(s, f, success, jwt) ==
    /\ Receiving(s)
    /\ f \in wire[s] /\ f.method = "auth_verify"
    /\ wire' = [wire EXCEPT ![s] = @ \ {f}]
    /\ IF success
       THEN /\ isAuthenticated' = TRUE
            /\ connectionStatus' = "authenticated"
            /\ jwtToken' = IF jwt # 0 THEN jwt ELSE jwtToken
            /\ UNCHANGED rejectedOn
       ELSE /\ rejectedOn' = rejectedOn \cup {s}
            /\ UNCHANGED <<isAuthenticated, connectionStatus, jwtToken>>
    /\ emitted' = IF success THEN {"authenticated"} ELSE {}
    /\ UNCHANGED <<now, initialized, expiresAt, ws, sockState, nextSock,
                   reconnectAttempts, requestMap, requestTimers, calls,
                   connTimers, connectPromise, reconnectTimers, tasks,
                   srvChallenge, userDisconnected, outsideClient>>

\* The server answers the request f it received on socket s with a res frame
\* that echoes the frame's id: handleMessage resolves the handler stored
\* under that id, if there is one.
handleResponse(s, f) ==
    /\ Receiving(s)
    /\ f \in wire[s] /\ f.method \in RequestMethods
    /\ wire' = [wire EXCEPT ![s] = @ \ {f}]
    /\ IF f.id \in DOMAIN requestMap
       THEN /\ requestTimers' = requestTimers \ {requestMap[f.id]}
            /\ calls' = Resolved(calls, requestMap[f.id], Answer(f.arg))
            /\ requestMap' = MapDelete(requestMap, f.id)
       ELSE UNCHANGED <<requestTimers, calls, requestMap>>
    /\ emitted' = {"message"}
    /\ UNCHANGED <<now, initialized, expiresAt, ws, sockState, nextSock,
                   connectionStatus, isAuthenticated, jwtToken,
                   reconnectAttempts, connTimers, connectPromise,
                   reconnectTimers, tasks, srvChallenge, rejectedOn,
                   userDisconnected, outsideClient>>

\* The server answers the frame f it received on socket s with an err frame
\* that echoes the frame's id: handleMessage rejects the handler stored under
\* that id, if there is one. An err frame that answers auth_verify is the
\* server rejecting the handshake.
handleError(s, f) ==
    /\ Receiving(s)
    /\ f \in wire[s]
    /\ wire' = [wire EXCEPT ![s] = @ \ {f}]
    /\ IF f.id \in DOMAIN requestMap
       THEN /\ requestTimers' = requestTimers \ {requestMap[f.id]}
            /\ calls' = Rejected(calls, requestMap[f.id], "RemoteError")
            /\ requestMap' = MapDelete(requestMap, f.id)
       ELSE UNCHANGED <<requestTimers, calls, requestMap>>
    /\ rejectedOn' = IF f.method = "auth_verify" THEN rejectedOn \cup {s}
                     ELSE rejectedOn
    /\ emitted' = {"error"}
    /\ UNCHANGED <<now, initialized, expiresAt, ws, sockState, nextSock,
                   connectionStatus, isAuthenticated, jwtToken,
                   reconnectAttempts, connTimers, connectPromise,
                   reconnectTimers, tasks, srvChallenge, userDisconnected,
                   outsideClient>>

\* A frame without a handler that ends the session.
handleUnrelatedDropsSession(s, id) ==
    /\ Receiving(s)
    /\ id \notin DOMAIN requestMap
    /\ isAuthenticated' = FALSE
    /\ connectionStatus' = "disconnected"
    /\ emitted' \in {{"message"}, {"error"}}
    /\ UNCHANGED <<now, initialized, expiresAt, ws, sockState, nextSock,
                   jwtToken, reconnectAttempts, requestMap, requestTimers,
                   calls, connTimers, connectPromise, reconnectTimers, tasks,
                   wire, srvChallenge, rejectedOn, userDisconnected,
                   outsideClient>>

\* A res or err frame of some other method whose id matches no pending
\* request: handleMessage finds no handler.
handleUnrelated(s, id) ==
    /\ Receiving(s)
    /\ id \notin DOMAIN requestMap
    /\ emitted' \in {{"message"}, {"error"}}
    /\ UNCHANGED <<now, initialized, expiresAt, ws, sockState, nextSock,
                   connectionStatus, isAuthenticated, jwtToken,
                   reconnectAttempts, requestMap, requestTimers, calls,
                   connTimers, connectPromise, reconnectTimers, tasks, wire,
                   srvChallenge, rejectedOn, userDisconnected, outsideClient>>

\* The clock moves on.
tick ==
    /\ now < MaxTime
    /\ now' = now + 1
    /\ emitted' = {}
    /\ UNCHANGED <<initialized, expiresAt, ws, sockState, nextSock,
                   connectionStatus, isAuthenticated, jwtToken,
                   reconnectAttempts, requestMap, requestTimers, calls,
                   connTimers, connectPromise, reconnectTimers, tasks, wire,
                   srvChallenge, rejectedOn, userDisconnected, outsideClient>>

ClientNext ==
    \/ initialize
    \/ connect
    \/ disconnect
    \/ tick
    \/ \E c \in CallIds, m \in RequestMethods : sendRequest(c, m)
    \/ \E t \in tasks : startAuthentication(t)
    \/ \E t \in tasks : sendRequestSend(t)
    \/ \E t \in tasks : handleAuthChallengeSend(t)
    \/ \E c \in CallIds : requestTimeoutFires(c)
    \/ \E n \in 1..maxReconnectAttempts : reconnectTimerFires(n)
    \/ \E s \in SocketIds : connectionTimeoutFires(s)
    \/ \E s \in SocketIds : onOpen(s)
    \/ \E s \in SocketIds : onError(s)
    \/ \E s \in SocketIds : onClose(s)
    \/ \E s \in SocketIds : \E f \in wire[s], ch \in Challenges :
          handleAuthChallenge(s, f, ch)
    \/ \E s \in SocketIds : \E f \in wire[s], ok \in BOOLEAN, jwt \in JwtTokens :
          handleAuthSuccess(s, f, ok, jwt)
    \/ \E s \in SocketIds : \E f \in wire[s] : handleResponse(s, f)
    \/ \E s \in SocketIds : \E f \in wire[s] : handleError(s, f)
    \/ \E s \in SocketIds, id \in Times : handleUnrelated(s, id)

\* A second of wall-clock time passes (the expiry is counted in seconds).
secondPasses ==
    /\ now < 1000 * MaxSeconds
    /\ now' = now + 1000
    /\ emitted' = {}
    /\ UNCHANGED <<initialized, expiresAt, ws, sockState, nextSock,
                   connectionStatus, isAuthenticated, jwtToken,
                   reconnectAttempts, requestMap, requestTimers, calls,
                   connTimers, connectPromise, reconnectTimers, tasks, wire,
                   srvChallenge, rejectedOn, userDisconnected, outsideClient>>

\* A ClearNode that cooperates: it answers every auth_request with a
\* challenge, and an auth_verify with success exactly when the frame carries
\* the challenge it issued on that socket.
serverChallenge(s, f, challenge) ==
    /\ challenge # 0
    /\ handleAuthChallenge(s, f, challenge)

serverVerify(s, f, jwt) ==
    handleAuthSuccess(s, f, f.arg = srvChallenge[s], jwt)

\* The steps of one handshake on a connection that stays up
HandshakeStep ==
    \/ \E s \in SocketIds : onOpen(s)
    \/ \E t \in tasks : startAuthentication(t)
    \/ \E t \in tasks : handleAuthChallengeSend(t)
    \/ \E s \in SocketIds : \E f \in wire[s], ch \in Challenges :
          serverChallenge(s, f, ch)
    \/ \E s \in SocketIds : \E f \in wire[s], jwt \in JwtTokens :
          serverVerify(s, f, jwt)

firstConnect ==
    /\ ws = 0
    /\ connect

HandshakeNext ==
    \/ initialize
    \/ firstConnect
    \/ tick
    \/ HandshakeStep
    \/ \E c \in CallIds, m \in RequestMethods : sendRequest(c, m)
    \/ \E t \in tasks : sendRequestSend(t)
    \/ \E s \in SocketIds : \E f \in wire[s] : handleResponse(s, f)

\* One connection to a cooperating server, with every kind of inbound frame:
\* answers and errors to the requests sent, frames that answer nothing, and
\* the request timeouts.
FramesNext ==
    \/ HandshakeNext
    \/ \E c \in CallIds : requestTimeoutFires(c)
    \/ \E s \in SocketIds : \E f \in wire[s] :
          f.method \in RequestMethods /\ handleError(s, f)
    \/ \E s \in SocketIds, id \in Times : handleUnrelated(s, id)

\* The reconnect loop left to itself: one connect() by the user, then only
\* socket events and timers
ReconnectNext ==
    \/ initialize
    \/ firstConnect
    \/ \E n \in 1..maxReconnectAttempts : reconnectTimerFires(n)
    \/ \E s \in ReconnectSockets : connectionTimeoutFires(s)
    \/ \E s \in ReconnectSockets : onOpen(s)
    \/ \E s \in ReconnectSockets : onClose(s)
    \/ \E t \in tasks : startAuthentication(t)

\* The reconnect loop while the seconds pass
ExpiryNext ==
    \/ ReconnectNext
    \/ secondPasses

Init == VaultInit /\ LedgerInit /\ ClientInit

ReconnectInit == VaultInit /\ LedgerInit /\ ClientInitWith(ReconnectSockets)

SpecVault == Init /\ [][VaultNext]_vars

SpecLedger == Init /\ [][LedgerNext]_vars

SpecLedgerConcurrent == Init /\ [][LedgerConcurrentNext]_vars

SpecClient == Init /\ [][ClientNext]_vars

SpecFrames == Init /\ [][FramesNext]_vars

SpecExpiry == ReconnectInit /\ [][ExpiryNext]_vars

SpecReconnect == ReconnectInit /\ [][ReconnectNext]_vars

\* The socket opens, the event loop runs the queued continuations and the
\* cooperating server answers the frames it receives.
SpecHandshake == Init /\ [][HandshakeNext]_vars /\ WF_vars(HandshakeStep)

(***************************************************************************)
(* C1: the status of a deposit only ever changes along                     *)
(* Pending -> Sent -> Confirmed -> Settled -> Withdrawn or, by emergency   *)
(* withdrawal, Pending -> Withdrawn; a Withdrawn deposit keeps its status. *)
(* A deposit is a slot that deposit() has written (positionId # 0).        *)
(***************************************************************************)
ForwardSteps ==
    {<<"Pending", "Sent">>, <<"Sent", "Confirmed">>,
     <<"Confirmed", "Settled">>, <<"Settled", "Withdrawn">>,
     <<"Pending", "Withdrawn">>}

C1_StatusOnlyMovesForward ==
    [][\A p \in PositionIds :
         deposits[p].positionId # 0 =>
            \/ deposits'[p].status = deposits[p].status
            \/ <<deposits[p].status, deposits'[p].status>> \in ForwardSteps]_vars

\* A deposit went the whole way through the hub to Withdrawn.
C1_Witness ==
    \E p \in 1..MaxPositions :
       /\ deposits[p].positionId = p
       /\ deposits[p].status = "Withdrawn"
       /\ deposits[p].hubPositionId # 0

(***************************************************************************)
(* C2: once the calls made on a session have returned, its history holds   *)
(* one entry per version and the i-th entry (counted from 1) carries       *)
(* version i: no gap, no version without its entry.                        *)
(***************************************************************************)
C2_HistoryContiguous ==
    NoCallInFlight =>
       \A c \in DOMAIN channelState :
          /\ Len(stateHistory[c]) = channelState[c].version
          /\ \A i \in 1..Len(stateHistory[c]) : stateHistory[c][i].version = i

(***************************************************************************)
(* C3: once the calls made on a session have returned, the version of its  *)
(* channel state is the version of its last history entry.                 *)
(***************************************************************************)
C3_VersionIsLastHistoryVersion ==
    NoCallInFlight =>
       \A c \in DOMAIN channelState :
          /\ stateHistory[c] # <<>>
          /\ channelState[c].version =
                stateHistory[c][Len(stateHistory[c])].version

(***************************************************************************)
(* C4: a session whose intent is FINALIZE is never written again: no later *)
(* updateChannelState or finalizeChannel changes its state or its history. *)
(***************************************************************************)
C4_FinalizedIsFrozen ==
    [][\A c \in DOMAIN channelState :
          channelState[c].intent = "FINALIZE" =>
             /\ channelState'[c] = channelState[c]
             /\ stateHistory'[c] = stateHistory[c]]_vars

(***************************************************************************)
(* C5: two sendRequest calls in flight at once each complete with the      *)
(* result of their own request: a call that resolved holds the answer the  *)
(* server computed for the frame that call sent.                           *)
(***************************************************************************)
C5_EachCallGetsItsOwnResult ==
    \A c \in CallIds :
        calls[c].st = "resolved" => calls[c].result = Answer(c)

(***************************************************************************)
(* C6: after disconnect() the service schedules and makes no reconnection  *)
(* until the user calls connect() again: no reconnect timer is set and no  *)
(* socket is created while the explicit disconnect stands.                 *)
(***************************************************************************)
C6_NoReconnectAfterDisconnect ==
    [][(userDisconnected /\ userDisconnected') =>
          /\ \A n \in 1..maxReconnectAttempts :
                reconnectTimers'[n] <= reconnectTimers[n]
          /\ nextSock' = nextSock]_vars

(***************************************************************************)
(* C7: disconnect() fails every pending request with "Connection closed",  *)
(* leaves the request map empty and leaves no request timeout armed.       *)
(***************************************************************************)
C7_DisconnectFailsAllPending ==
    [][disconnect =>
          /\ \A c \in CallIds : calls[c].st = "pending" =>
                /\ calls'[c].st = "rejected"
                /\ calls'[c].error = "Connection closed"
          /\ requestMap' = <<>>
          /\ requestTimers' = {}]_vars

(***************************************************************************)
(* C8: the promise connect() returned resolves only when the service is    *)
(* authenticated.                                                          *)
(***************************************************************************)
C8_ConnectResolvesWhenAuthenticated ==
    [][\A s \in SocketIds :
          (connectPromise[s] = "pending" /\ connectPromise'[s] = "resolved")
             => (isAuthenticated' /\ connectionStatus' = "authenticated")]_vars

(***************************************************************************)
(* C9: when the server rejects the handshake of a connection, that         *)
(* connect() call has failed with "Authentication failed".                 *)
(***************************************************************************)
C9_RejectionFailsConnect ==
    \A s \in rejectedOn :
        connectPromise[s] = "rejected: Authentication failed"

(***************************************************************************)
(* C10: against a cooperating server on a connection that stays up, the    *)
(* service sends auth_request, answers the challenge with an auth_verify   *)
(* that carries the challenge the server issued, and ends authenticated.   *)
(***************************************************************************)
C10_HandshakeCompletes ==
    /\ [][\A s \in SocketIds : \A f \in wire'[s] \ wire[s] :
            /\ f.method \in {"auth_request", "auth_verify"} => f.expiry = expiresAt
            /\ f.method = "auth_verify" =>
                  (srvChallenge[s] # 0 /\ f.arg = srvChallenge[s])]_vars
    /\ \A s \in SocketIds :
          (sockState[s] = "connecting") ~>
             (\E f \in wire[s] : f.method = "auth_request")
    /\ \A s \in SocketIds :
          (sockState[s] = "connecting") ~>
             (isAuthenticated /\ connectionStatus = "authenticated")

C10_Witness ==
    /\ ws # 0
    /\ srvChallenge[ws] # 0
    /\ isAuthenticated
    /\ connectionStatus = "authenticated"

(***************************************************************************)
(* C11: sendRequest called while the connection status is not              *)
(* Authenticated fails with "Not authenticated", sends no frame and        *)
(* registers no pending entry and no timer.                                *)
(***************************************************************************)
C11_RequestNeedsAuthenticated ==
    [][\A c \in CallIds, m \in RequestMethods :
          (sendRequest(c, m) /\ connectionStatus # "authenticated") =>
             /\ calls'[c].st = "rejected"
             /\ calls'[c].error = "Not authenticated"
             /\ UNCHANGED <<requestMap, requestTimers, tasks, wire>>]_vars

\* The calls that were given a correlation id
Issued(c) == calls[c].st # "idle" /\ calls[c].error # "Not authenticated"

(***************************************************************************)
(* C12: the correlation ids of the requests of a client are unique and     *)
(* strictly increasing in the order the calls were made, also for two      *)
(* calls made within one clock tick.                                       *)
(***************************************************************************)
C12_RequestIdsStrictlyIncrease ==
    \A c, d \in CallIds :
        (c < d /\ Issued(c) /\ Issued(d)) => calls[c].key < calls[d].key

(***************************************************************************)
(* C13: when a socket closes without disconnect() having been called,      *)
(* attemptReconnect schedules attempt n with the delay                     *)
(* 3000 * 2^(n-1) ms (3000, 6000, 12000, 24000 for attempts 1..4), and     *)
(* once 5 attempts have been made without the socket opening it schedules  *)
(* nothing.                                                                *)
(***************************************************************************)
C13_BackoffSchedule ==
    [][\A s \in ReconnectSockets :
          (onClose(s) /\ ~userDisconnected) =>
             IF reconnectAttempts < 5
             THEN LET n == reconnectAttempts + 1 IN
                  /\ reconnectAttempts' = n
                  /\ reconnectTimers' = [reconnectTimers EXCEPT ![n] = @ + 1]
                  /\ ReconnectDelay(n) = 3000 * 2^(n - 1)
                  /\ n <= 4 =>
                       ReconnectDelay(n) = <<3000, 6000, 12000, 24000>>[n]
             ELSE /\ reconnectTimers' = reconnectTimers
                  /\ reconnectAttempts' = reconnectAttempts]_vars

C13_Witness ==
    /\ reconnectAttempts = maxReconnectAttempts
    /\ nextSock > maxReconnectAttempts + 1
    /\ \A s \in DOMAIN sockState : sockState[s] \in {"closed", "none"}
    /\ \A n \in 1..maxReconnectAttempts : reconnectTimers[n] = 0
    /\ emitted = {"disconnected"}

(***************************************************************************)
(* C14: the close that finds the reconnect attempts used up schedules no   *)
(* further attempt and emits a reconnect-exhausted event to the listeners  *)
(* of the service.                                                         *)
(***************************************************************************)
C14_ExhaustionIsSignalled ==
    [][\A s \in ReconnectSockets :
          (onClose(s) /\ reconnectAttempts >= maxReconnectAttempts) =>
             /\ reconnectTimers' = reconnectTimers
             /\ emitted' \ {"disconnected"} # {}]_vars

(***************************************************************************)
(* C15: at most one reconnect attempt is in flight: no two reconnect       *)
(* timers are pending together.                                            *)
(***************************************************************************)
C15_OneReconnectInFlight ==
    \A n, m \in 1..maxReconnectAttempts :
        /\ reconnectTimers[n] <= 1
        /\ (n # m) => ~(reconnectTimers[n] > 0 /\ reconnectTimers[m] > 0)

(***************************************************************************)
(* C16: withdraw on a Settled deposit by its owner pays                    *)
(* fee = floor(yieldAmount * feeBps / 10000) and                           *)
(* payout = principal + yieldAmount - fee, with the principal and the      *)
(* yieldAmount receiveSettlement was given for that deposit, and sets the  *)
(* status to Withdrawn.                                                    *)
(***************************************************************************)
C16_WithdrawPaysSettlement ==
    [][\A s \in Callers, p \in PositionIds :
          withdraw(s, p) =>
             LET principal == settlementReceived[p][1]
                 yieldAmount == settlementReceived[p][2]
                 fee == (yieldAmount * protocolFeeBps) \div 10000
             IN  /\ WithdrawAmounts(p) = <<principal + yieldAmount - fee, fee>>
                 /\ deposits'[p].status = "Withdrawn"]_vars

C18_EmergencyWithdrawReturnsAll ==
    [][\A s \in Callers, p \in PositionIds :
          emergencyWithdraw(s, p) =>
             /\ deposits[p].status = "Pending"
             /\ nftOwner[p] = s
             /\ deposits'[p].status = "Withdrawn"
             /\ vaultBalance'[deposits[p].token] =
                   vaultBalance[deposits[p].token] - deposits[p].amount
             /\ \A t \in Tokens \ {deposits[p].token} :
                   vaultBalance'[t] = vaultBalance[t]]_vars

C18_Witness ==
    \E p \in 1..MaxPositions :
        /\ deposits[p].positionId = p
        /\ deposits[p].status = "Withdrawn"
        /\ deposits[p].hubPositionId = 0
        /\ deposits[p].amount = 2
        /\ vaultBalance[deposits[p].token] = 0

C20_CoordinatorOnly ==
    /\ [](\A s \in Callers, p \in PositionIds :
            ~(s = messenger \/ s = Owner) =>
               /\ confirmDepositResult(s, p) = "Not authorized"
               /\ receiveSettlementResult(s, p) = "Not authorized")
    /\ [][\A s \in Callers, p \in PositionIds :
            /\ \A h \in HubIds :
                  confirmDeposit(s, p, h) =>
                     /\ (s = messenger \/ s = Owner)
                     /\ deposits[p].status = "Sent"
                     /\ deposits'[p] =
                           [deposits[p] EXCEPT !.hubPositionId = h,
                                               !.status = "Confirmed"]
            /\ (\E st \in Settlements : receiveSettlement(s, p, st[1], st[2])) =>
                  (s = messenger \/ s = Owner)]_vars

C20_Witness ==
    \E p \in 1..MaxPositions :
        /\ messenger = "relay"
        /\ deposits[p].positionId = p
        /\ deposits[p].status = "Confirmed"
        /\ deposits[p].hubPositionId = 2
        /\ confirmDepositResult("bob", p) = "Not authorized"

(***************************************************************************)
(* C21: deposit records the new position as Pending and, when a hub vault  *)
(* and a messenger are configured at that moment, sends it to the hub in   *)
(* the same call, so that it is Sent when the call returns; otherwise it   *)
(* stays Pending. sendToHub on a Pending deposit while no hub vault is     *)
(* configured fails with HubNotConfigured and changes nothing.             *)
(***************************************************************************)
C21_DepositAutoSend ==
    /\ [][\A s \in Users, t \in Tokens, a \in Amounts :
            deposit(s, t, a) =>
               LET p == nftNextId IN
               deposits'[p] =
                  [positionId |-> p, depositor |-> s, token |-> t,
                   amount |-> a, hubPositionId |-> 0,
                   status |-> IF hubVaultAddress # ZeroAddress
                                   /\ messenger # ZeroAddress
                              THEN "Sent" ELSE "Pending"]]_vars
    /\ [](\A p \in PositionIds :
            (deposits[p].status = "Pending" /\ hubVaultAddress = ZeroAddress)
               => sendToHubResult(Owner, p) = "HubNotConfigured")
    /\ [][\A s \in Callers, p \in PositionIds :
            sendToHub(s, p) => hubVaultAddress # ZeroAddress]_vars

C21_Witness ==
    \E p \in 1..MaxPositions :
        /\ nftNextId = p + 1
        /\ hubVaultAddress # ZeroAddress
        /\ messenger # ZeroAddress
        /\ deposits[p].positionId = p
        /\ deposits[p].status = "Sent"
        /\ deposits[p].hubPositionId = 0

(***************************************************************************)
(* C22: updateChannelState on an existing channel, with no other call in   *)
(* flight, writes the row with the version incremented by exactly 1,       *)
(* intent OPERATE and the new allocations, and then appends exactly one    *)
(* history entry with that version and those allocations, whether or not   *)
(* the allocations differ from the current ones; it creates no row, so on  *)
(* a channel that does not exist nothing comes into being.                 *)
(***************************************************************************)
C22_OperateBumpsVersion ==
    [][LET call == ledgerCalls[1]
           c == call.channelId
       IN  /\ UpdateWriteState(1) =>
                /\ channelState'[c].version = channelState[c].version + 1
                /\ channelState'[c].intent = "OPERATE"
                /\ channelState'[c].allocation0 =
                      Allocation(channelState[c].participants[1], call.amount0)
                /\ channelState'[c].allocation1 =
                      Allocation(channelState[c].participants[2], call.amount1)
                /\ stateHistory' = stateHistory
           /\ UpdateWriteHistory(1) =>
                /\ Len(stateHistory'[c]) = Len(stateHistory[c]) + 1
                /\ SubSeq(stateHistory'[c], 1, Len(stateHistory[c]))
                      = stateHistory[c]
                /\ LET e == stateHistory'[c][Len(stateHistory'[c])] IN
                   /\ e.version = channelState[c].version
                   /\ e.intent = "OPERATE"
                   /\ e.allocation0 = channelState[c].allocation0
                   /\ e.allocation1 = channelState[c].allocation1
                /\ channelState' = channelState
           /\ (call.op = "update" \/ ledgerCalls'[1].op = "update") =>
                LET u == IF call.op = "update" THEN c
                         ELSE ledgerCalls'[1].channelId
                IN  /\ DOMAIN channelState' = DOMAIN channelState
                    /\ u \in DOMAIN channelState
                    /\ \A d \in ChannelIds \ {u} :
                          /\ stateHistory'[d] = stateHistory[d]
                          /\ d \in DOMAIN channelState =>
                                channelState'[d] = channelState[d]]_vars

C22_Witness ==
    /\ NoCallInFlight
    /\ \E c \in DOMAIN channelState :
          /\ channelState[c].version = 3
          /\ channelState[c].intent = "OPERATE"
          /\ Len(stateHistory[c]) = 3
          /\ stateHistory[c][3].version = 3
          /\ stateHistory[c][3].allocation0 = stateHistory[c][2].allocation0
          /\ stateHistory[c][3].allocation1 = stateHistory[c][2].allocation1

(***************************************************************************)
(* C23: createChannelForDeal writes the channel state (version 1, intent   *)
(* INITIALIZE) and history entry 1 only after createAppSession returned    *)
(* the session; when the remote call fails the call ends with that failure *)
(* and has written neither a channel state nor a history entry.            *)
(***************************************************************************)
C23_CreateOnlyAfterRemoteSuccess ==
    /\ [][LET call == ledgerCalls[1] IN
          /\ CreateRemoteFailed(1) =>
                /\ channelState' = channelState
                /\ stateHistory' = stateHistory
                /\ ledgerCalls'[1] = IdleCall
          /\ (call.op = "create" /\ call.pc = "remote"
                 /\ ledgerCalls'[1].pc = "history") =>
                LET c == ledgerCalls'[1].channelId IN
                /\ c \notin DOMAIN channelState
                /\ DOMAIN channelState' = DOMAIN channelState \cup {c}
                /\ channelState'[c].version = 1
                /\ channelState'[c].intent = "INITIALIZE"
                /\ stateHistory' = stateHistory
          /\ CreateHistory(1) =>
                /\ stateHistory'[call.channelId] =
                      Append(stateHistory[call.channelId],
                             [version |-> 1,
                              stateHash |-> call.channelId,
                              intent |-> "INITIALIZE",
                              allocation0 |-> channelState[call.channelId].allocation0,
                              allocation1 |-> channelState[call.channelId].allocation1,
                              stateData |-> channelState[call.channelId].stateData])
                /\ channelState' = channelState
          /\ (DOMAIN channelState' # DOMAIN channelState) =>
                (call.op = "create" /\ call.pc = "remote")]_vars
    /\ [](\A c \in ChannelIds :
             c \notin DOMAIN channelState => stateHistory[c] = <<>>)

C23_Witness ==
    /\ NoCallInFlight
    /\ DOMAIN channelState = {"s1"}
    /\ channelState["s1"].version = 1
    /\ channelState["s1"].intent = "INITIALIZE"
    /\ Len(stateHistory["s1"]) = 1
    /\ stateHistory["s1"][1].version = 1
    /\ stateHistory["s2"] = <<>>

(***************************************************************************)
(* C24: a pending request whose response arrives resolves with the result  *)
(* the server computed for it and its timeout is cleared; a request whose  *)
(* timeout fires while it is pending fails with "Request timeout" and its  *)
(* key leaves the request map; a request that has resolved is not failed   *)
(* afterwards.                                                             *)
(***************************************************************************)
C24_AnsweredOrTimedOut ==
    [][/\ \A s \in SocketIds : \A f \in wire[s] :
            (handleResponse(s, f) /\ calls[f.arg].st = "pending") =>
               /\ calls'[f.arg].st = "resolved"
               /\ calls'[f.arg].result = Answer(f.arg)
               /\ f.arg \notin requestTimers'
       /\ \A c \in CallIds :
            (requestTimeoutFires(c) /\ calls[c].st = "pending") =>
               /\ calls'[c].st = "rejected"
               /\ calls'[c].error = "Request timeout"
               /\ calls[c].key \notin DOMAIN requestMap'
       /\ \A c \in CallIds :
            calls[c].st = "resolved" => calls'[c] = calls[c]]_vars

(***************************************************************************)
(* C25: when the server answers the frame of a pending request with an     *)
(* error frame, that request is rejected with the remote error, its        *)
(* timeout is cleared and its key leaves the request map; every other call *)
(* and every other timeout is left as it was.                              *)
(***************************************************************************)
C25_ErrorFailsThatRequest ==
    [][\A s \in SocketIds : \A f \in wire[s] :
          (handleError(s, f) /\ f.method \in RequestMethods
              /\ calls[f.arg].st = "pending") =>
             /\ calls'[f.arg].st = "rejected"
             /\ calls'[f.arg].error = "RemoteError"
             /\ f.arg \notin requestTimers'
             /\ f.id \notin DOMAIN requestMap'
             /\ \A d \in CallIds \ {f.arg} :
                   /\ calls'[d] = calls[d]
                   /\ (d \in requestTimers') = (d \in requestTimers)]_vars

\* The status changes one run of a handler may make: one step forward, the
\* open handler's two steps (Connected, then Authenticating), or a fall to
\* Disconnected.
StatusSteps ==
    {<<"disconnected", "connecting">>, <<"connecting", "connected">>,
     <<"connecting", "authenticating">>, <<"connected", "authenticating">>,
     <<"authenticating", "authenticated">>}

(***************************************************************************)
(* C26: connectionStatus only moves forward along disconnected,            *)
(* connecting, connected, authenticating, authenticated, or falls to       *)
(* disconnected: it becomes authenticated only from authenticating and     *)
(* connecting only from disconnected.                                      *)
(***************************************************************************)
C26_StatusMovesAlongThePath ==
    [][\/ connectionStatus' = connectionStatus
       \/ connectionStatus' = "disconnected"
       \/ <<connectionStatus, connectionStatus'>> \in StatusSteps]_vars

(***************************************************************************)
(* C27: a close event leaves the service not authenticated, and once a     *)
(* socket has closed the service becomes authenticated again only by the   *)
(* answer to an auth_verify it sent, after a challenge, on its current     *)
(* open socket.                                                            *)
(***************************************************************************)
C27_ReconnectNeedsFullHandshake ==
    [][/\ \A s \in SocketIds : onClose(s) => ~isAuthenticated'
       /\ ((\E s \in SocketIds : sockState[s] = "closed")
              /\ ~isAuthenticated /\ isAuthenticated') =>
             /\ ws # 0
             /\ sockState[ws] = "open"
             /\ srvChallenge[ws] # 0
             /\ \E f \in wire[ws] :
                   f.method = "auth_verify" /\ f \notin wire'[ws]]_vars

(***************************************************************************)
(* C28: with two calls on the same channel in flight at once, every write  *)
(* that changes a channel's row gives it a greater version than it had,    *)
(* and no two history entries of a channel carry the same version.         *)
(***************************************************************************)
C28_VersionNeverReused ==
    /\ [][\A c \in DOMAIN channelState :
             channelState'[c] # channelState[c] =>
                channelState'[c].version > channelState[c].version]_vars
    /\ [](\A c \in ChannelIds :
             \A i, j \in 1..Len(stateHistory[c]) :
                i < j => stateHistory[c][i].version # stateHistory[c][j].version)

\* What an ignored frame must leave alone
PendingAndSession ==
    <<requestMap, requestTimers, calls, connectionStatus, isAuthenticated>>

(***************************************************************************)
(* C29: a res or err frame that is not a handshake frame and whose id is   *)
(* the key of no pending request changes neither the request map, nor any  *)
(* call's outcome or timeout, nor the connection status, nor the           *)
(* authentication flag; an auth_challenge and a successful auth_verify     *)
(* answer take effect whether or not their id is a key of the map.         *)
(***************************************************************************)
C29_UnmatchedFramesIgnored ==
    [][/\ \A s \in SocketIds, id \in Times :
            handleUnrelated(s, id) => UNCHANGED PendingAndSession
       /\ \A s \in SocketIds : \A f \in wire[s] :
            /\ ((handleResponse(s, f) \/ handleError(s, f))
                   /\ f.method \in RequestMethods
                   /\ f.id \notin DOMAIN requestMap)
                  => UNCHANGED PendingAndSession
            /\ \A jwt \in JwtTokens :
                  handleAuthSuccess(s, f, TRUE, jwt) =>
                     /\ isAuthenticated'
                     /\ connectionStatus' = "authenticated"
            /\ \A ch \in Challenges :
                  handleAuthChallenge(s, f, ch) =>
                     \E t \in tasks' \ tasks : t.kind = "auth_verify"]_vars

C29_Witness ==
    /\ isAuthenticated
    /\ connectionStatus = "authenticated"
    /\ emitted \in {{"message"}, {"error"}}
    /\ calls[1].st = "pending"
    /\ calls[2].st = "idle"
    /\ requestMap = (calls[1].key :> 1)
    /\ 1 \in requestTimers

(***************************************************************************)
(* C30: the reconnect attempt counter goes back to zero only in a step     *)
(* that leaves the service authenticated: a socket that merely opens does  *)
(* not reset it.                                                           *)
(***************************************************************************)
C30_OnlySuccessResetsAttempts ==
    [][(reconnectAttempts > 0 /\ reconnectAttempts' = 0) =>
          (isAuthenticated' /\ connectionStatus' = "authenticated")]_vars

(***************************************************************************)
(* C31: no step changes the participants of a channel, the allocations of  *)
(* every channel name its participants in order, and an update called      *)
(* without stateData (undefined or "") leaves the stored stateData as it   *)
(* is.                                                                     *)
(***************************************************************************)
C31_ParticipantsAndStateDataKept ==
    /\ [](\A c \in DOMAIN channelState :
             /\ channelState[c].allocation0.destination =
                   channelState[c].participants[1]
             /\ channelState[c].allocation1.destination =
                   channelState[c].participants[2])
    /\ [][/\ \A c \in DOMAIN channelState :
                channelState'[c].participants = channelState[c].participants
          /\ \A k \in LedgerSlots :
                (UpdateWriteState(k)
                    /\ StateDataOr(ledgerCalls[k].stateData, "") = "") =>
                   channelState'[ledgerCalls[k].channelId].stateData =
                      channelState[ledgerCalls[k].channelId].stateData]_vars

(***************************************************************************)
(* C32: no two channel states are linked to the same deal.                 *)
(***************************************************************************)
C32_OneSessionPerDeal ==
    \A c, d \in DOMAIN channelState :
        c # d => channelState[c].dealId # channelState[d].dealId

(***************************************************************************)
(* C33: when the reconnect timer opens a new connection, the expiry the    *)
(* handshake frames of that connection will carry is sessionExpiration     *)
(* after the current time, and the service is not authenticated.           *)
(***************************************************************************)
C33_ExpiryRebuiltOnReconnect ==
    [][\A n \in 1..maxReconnectAttempts :
          reconnectTimerFires(n) =>
             /\ expiresAt' = (now \div 1000) + sessionExpiration
             /\ createAuthRequestMessage'.expiry =
                   (now \div 1000) + sessionExpiration
             /\ ~isAuthenticated']_vars

(***************************************************************************)
(* C34: protocolFeeBps is at most 1000 in every reachable state;           *)
(* setProtocolFee fails for a value above 1000 and for every caller but    *)
(* the owner; the fee changes only by a setProtocolFee call of the owner   *)
(* with a value of at most 1000; and the fee withdraw computes is at most  *)
(* a tenth of the yield.                                                   *)
(***************************************************************************)
C34_FeeBounded ==
    /\ [](/\ protocolFeeBps \in 0..1000
          /\ \A s \in Callers, f \in FeeValues :
                (f > 1000 \/ s # Owner) => setProtocolFeeResult(s, f) # "ok"
          /\ \A p \in PositionIds :
                WithdrawAmounts(p)[2] * 10000 <= WithdrawYield * protocolFeeBps
                /\ WithdrawAmounts(p)[2] * 10 <= WithdrawYield)
    /\ [][protocolFeeBps' # protocolFeeBps =>
             \E f \in FeeValues :
                f <= 1000 /\ f = protocolFeeBps' /\ setProtocolFee(Owner, f)]_vars

C34_Witness ==
    /\ protocolFeeBps = 1000
    /\ setProtocolFeeResult(Owner, 1001) = "Fee too high"
    /\ \E p \in 1..MaxPositions :
          deposits[p].status = "Withdrawn" /\ settlementReceived[p] # <<0, 0>>

(***************************************************************************)
(* C35: the req frame a sendRequest call builds carries as its id the key  *)
(* under which the call registered its pending entry.                      *)
(***************************************************************************)
C35_FrameIdIsPendingKey ==
    \A t \in tasks :
        t.kind = "request" => t.frame.id = calls[t.call].key

(***************************************************************************)
(* C36: isAuthenticated is true exactly when connectionStatus is           *)
(* authenticated.                                                          *)
(***************************************************************************)
C36_FlagMatchesStatus ==
    isAuthenticated <=> (connectionStatus = "authenticated")

(***************************************************************************)
(* C37: while the promise of a connect() call is pending, something that   *)
(* settles it is still to come: its connection timeout is armed, its       *)
(* socket can still open, or the continuation of its open handler is       *)
(* queued.                                                                 *)
(***************************************************************************)
C37_ConnectCanStillSettle ==
    \A s \in SocketIds :
        connectPromise[s] = "pending" =>
           \/ s \in connTimers
           \/ sockState[s] = "connecting"
           \/ \E t \in tasks : t.kind = "auth_request" /\ t.sock = s

(***************************************************************************)
(* C38: a close event or an auth_verify answer from a socket that          *)
(* connect() has replaced changes neither connectionStatus nor             *)
(* isAuthenticated and schedules no reconnect.                             *)
(***************************************************************************)
C38_ReplacedSocketIsInert ==
    [][\A s \in SocketIds :
          (ws # 0 /\ s # ws
              /\ \/ onClose(s)
                 \/ \E f \in wire[s], ok \in BOOLEAN, jwt \in JwtTokens :
                       handleAuthSuccess(s, f, ok, jwt)) =>
             UNCHANGED <<connectionStatus, isAuthenticated, reconnectTimers,
                         reconnectAttempts>>]_vars

(***************************************************************************)
(* C39: a deposit is paid out at most once. Tokens leave the vault only in *)
(* a step that takes one deposit from a status other than Withdrawn to     *)
(* Withdrawn, burns its token and pays its owner; a Withdrawn deposit      *)
(* stays Withdrawn, its token stays burned, and withdraw and               *)
(* emergencyWithdraw fail on it for every caller.                          *)
(***************************************************************************)
C39_PaidOutAtMostOnce ==
    /\ [][/\ \A t \in Tokens :
                vaultBalance'[t] < vaultBalance[t] =>
                   \E p \in 1..MaxPositions :
                      /\ deposits[p].token = t
                      /\ deposits[p].status # "Withdrawn"
                      /\ deposits'[p].status = "Withdrawn"
                      /\ NftExists(p) /\ nftOwner'[p] = ZeroAddress
                      /\ \A q \in PositionIds \ {p} : deposits'[q] = deposits[q]
          /\ \A s \in Callers, p \in PositionIds :
                (withdraw(s, p) \/ emergencyWithdraw(s, p)) =>
                   /\ deposits[p].status # "Withdrawn"
                   /\ deposits'[p].status = "Withdrawn"
                   /\ nftOwner[p] = s /\ nftOwner'[p] = ZeroAddress
          /\ \A p \in 1..MaxPositions :
                deposits[p].status = "Withdrawn" =>
                   /\ deposits'[p].status = "Withdrawn"
                   /\ nftOwner'[p] = ZeroAddress]_vars
    /\ [](\A s \in Callers, p \in PositionIds :
             deposits[p].status = "Withdrawn" =>
                /\ withdrawResult(s, p) # "ok"
                /\ emergencyWithdrawResult(s, p) # "ok")

C39_Witness ==
    \E p \in 1..MaxPositions :
        /\ deposits[p].status = "Withdrawn"
        /\ settlementReceived[p] # <<0, 0>>
        /\ nftOwner[p] = ZeroAddress
        /\ vaultBalance[deposits[p].token] = 0
        /\ withdrawResult(deposits[p].depositor, p) # "ok"

RECURSIVE Outstanding(_, _)
\* The sum of amount over the deposits 1..n of token t that are not Withdrawn
Outstanding(t, n) ==
    IF n = 0 THEN 0
    ELSE Outstanding(t, n - 1)
         + (IF deposits[n].positionId # 0 /\ deposits[n].token = t
                /\ deposits[n].status # "Withdrawn"
            THEN deposits[n].amount ELSE 0)

====
